---- MODULE Spec2Model ----
(***************************************************************************)
(* A model of the multithreaded memory allocator (allocator.c).            *)
(*                                                                         *)
(* Memory is modelled at the level of 8-byte words.  `mem` is a sparse map *)
(* from word addresses to word values: an address that is absent holds 0   *)
(* (anonymous mappings are zero-filled).  A block header occupies four     *)
(* words (size, free, next, prev), exactly as struct memory_block does on  *)
(* an LP64 target, and headers and payloads share the one `mem`, so a      *)
(* header written into a payload, or payload data written over a header,   *)
(* is visible to every later read.  size_t arithmetic is modulo 2^WordBits.*)
(* An access to an address that lies in no mapped region raises SIGSEGV    *)
(* (fate = "segv"); a list walk that revisits a block never ends           *)
(* (fate = "hang").                                                        *)
(***************************************************************************)
EXTENDS Integers, Sequences, FiniteSets, TLC

(* ---------------------------------------------------------------------- *)
(* Program constants                                                       *)
(* ---------------------------------------------------------------------- *)
ALIGNMENT == 16
BLOCK_SIZE == 32
PAGE_SIZE == 4096
NULL == 0
\* byte offsets of the fields of memory_block_t
OFF_SIZE == 0
OFF_FREE == 8
OFF_NEXT == 16
OFF_PREV == 24
\* the byte the clients fill their allocations with (0xA5)
INIT_PATTERN == 165

(* ---------------------------------------------------------------------- *)
(* Bounds of the model                                                     *)
(* ---------------------------------------------------------------------- *)
\* width of size_t and of pointers, in bits
WordBits == 20
\* the address space the OS hands regions out of: pages 1 .. AddrPages
AddrPages == 4
\* number of threads
NumThreads == 2
\* public calls of the client in one run of Spec
MaxOps == 4
\* public calls of the client in one run of SpecDeep
DeepOps == 5
\* public calls of thread 1 and of thread 2 in one run of SpecMT
RaceOps1 == 3
RaceOps2 == 1
\* public calls of thread 1 and of thread 2 in one run of SpecShare
ShareOps1 == 4
ShareOps2 == 1
\* allocations one client holds at a time
MaxLive == 3
\* calls of the client that passes pointers it already gave back
StaleOps == 7
\* calls of the client that also passes trivial arguments and tears down
EdgeOps == 4
\* calls of the client that also calls allocator_init and allocator_destroy
LifeOps == 4
\* request sizes up to AlignSpan above 0 and up to AlignSpan below SIZE_MAX
AlignSpan == 17

WORD == 2 ^ WordBits
Threads == 1 .. NumThreads
\* request sizes at both ends of size_t
AlignInputs == (0 .. AlignSpan) \cup ((WORD - 1 - AlignSpan) .. (WORD - 1))
\* request sizes the clients use (bytes); they round to 16, 96 and 4112
ReqSizes == {8, 88, 4104}
\* the request size of the allocations a client fills with the pattern
FillSizes == {88}
\* zeroed-allocate arguments <<nmemb, size>> the clients use
CallocArgs == {<<11, 8>>}
\* nmemb * size exceeds SIZE_MAX: the product is 16 more than 2^WordBits
WrapArgs == {<<WORD \div 16 + 1, 16>>}

VARIABLES mem, free_list, regions, lock, fr, live, gone, result, budget, sizes, kinds,
          race, fate

vars == <<mem, free_list, regions, lock, fr, live, gone, result, budget, sizes, kinds,
          race, fate>>

(* ---------------------------------------------------------------------- *)
(* Word memory                                                             *)
(* ---------------------------------------------------------------------- *)
Add(a, b) == (a + b) % WORD
Sub(a, b) == (a - b + WORD) % WORD

\* the word at address a
Rd(m, a) == IF a \in DOMAIN m THEN m[a] ELSE 0

\* m with the word at a set to v (zero words are not stored)
Wr(m, a, v) ==
  IF v = 0 THEN [x \in (DOMAIN m) \ {a} |-> m[x]]
  ELSE [x \in (DOMAIN m) \cup {a} |-> IF x = a THEN v ELSE m[x]]

\* address a lies in a region of rs
Mapped(rs, a) == \E r \in rs : r.base <= a /\ a < r.base + r.len

\* every byte of [a, a + len) lies in a region of rs
RangeMapped(rs, a, len) ==
  \/ len = 0
  \/ /\ a + len <= WORD
     /\ \A k \in (a \div PAGE_SIZE) .. ((a + len - 1) \div PAGE_SIZE) :
          Mapped(rs, IF k * PAGE_SIZE < a THEN a ELSE k * PAGE_SIZE)

\* a machine state threaded through the helper functions: the memory and
\* whether every access so far hit mapped memory
Load(s, rs, a) == [mem |-> s.mem, ok |-> s.ok /\ Mapped(rs, a)]
Store(s, rs, a, v) ==
  IF s.ok /\ Mapped(rs, a) THEN [mem |-> Wr(s.mem, a, v), ok |-> TRUE]
  ELSE [mem |-> s.mem, ok |-> FALSE]

(* ---------------------------------------------------------------------- *)
(* Helper functions of allocator.c                                         *)
(* ---------------------------------------------------------------------- *)
\* (size + (ALIGNMENT - 1)) & ~(ALIGNMENT - 1)
align_size(size) ==
  LET s == Add(size, ALIGNMENT - 1) IN s - (s % ALIGNMENT)

\* (memory_block_t*)ptr - 1
get_block(ptr) == Sub(ptr, BLOCK_SIZE)

\* block && block->free == 0 : the result and whether the read faulted
valid_block(m, rs, block) ==
  IF block = NULL THEN [valid |-> FALSE, ok |-> TRUE]
  ELSE [valid |-> Rd(m, Add(block, OFF_FREE)) = 0,
        ok |-> Mapped(rs, Add(block, OFF_FREE))]

\* find_block's loop returning the last fitting block instead of the first
RECURSIVE find_from_Last(_, _, _, _, _)
find_from_Last(m, rs, current, size, seen) ==
  IF current = NULL \/ current \in seen \/ ~Mapped(rs, Add(current, OFF_NEXT))
  THEN [block |-> NULL, st |-> "ok"]
  ELSE LET rest == find_from_Last(m, rs, Rd(m, Add(current, OFF_NEXT)), size,
                                  seen \cup {current})
       IN  IF rest.block # NULL THEN rest
           ELSE IF Rd(m, Add(current, OFF_FREE)) # 0
                   /\ Rd(m, Add(current, OFF_SIZE)) >= size
                THEN [block |-> current, st |-> "ok"]
                ELSE rest

\* the first-fit walk from current; seen are the blocks already visited
RECURSIVE find_from(_, _, _, _, _)
find_from(m, rs, current, size, seen) ==
  IF current = NULL THEN [block |-> NULL, st |-> "ok"]
  ELSE IF current \in seen THEN [block |-> NULL, st |-> "hang"]
  ELSE IF ~Mapped(rs, Add(current, OFF_FREE)) THEN [block |-> NULL, st |-> "segv"]
  ELSE IF Rd(m, Add(current, OFF_FREE)) # 0
          /\ ~Mapped(rs, Add(current, OFF_SIZE)) THEN [block |-> NULL, st |-> "segv"]
  ELSE IF Rd(m, Add(current, OFF_FREE)) # 0
          /\ Rd(m, Add(current, OFF_SIZE)) >= size THEN [block |-> current, st |-> "ok"]
  ELSE IF ~Mapped(rs, Add(current, OFF_NEXT)) THEN [block |-> NULL, st |-> "segv"]
  ELSE find_from(m, rs, Rd(m, Add(current, OFF_NEXT)), size, seen \cup {current})

find_block(m, rs, head, size) == find_from(m, rs, head, size, {})

\* split_block without the back link of the former successor
split_block_NoBackLink(s, rs, block, size) ==
  LET new_block == Add(Add(block, BLOCK_SIZE), size)
      s0 == Load(s, rs, Add(block, OFF_SIZE))
      s1 == Store(s0, rs, Add(new_block, OFF_SIZE),
                  Sub(Sub(Rd(s0.mem, Add(block, OFF_SIZE)), size), BLOCK_SIZE))
      s2 == Store(s1, rs, Add(new_block, OFF_FREE), 1)
      s3 == Load(s2, rs, Add(block, OFF_NEXT))
      s4 == Store(s3, rs, Add(new_block, OFF_NEXT), Rd(s3.mem, Add(block, OFF_NEXT)))
      s5 == Store(s4, rs, Add(new_block, OFF_PREV), block)
      s7 == Store(s5, rs, Add(block, OFF_SIZE), size)
  IN  Store(s7, rs, Add(block, OFF_NEXT), new_block)

split_block(s, rs, block, size) ==
  LET new_block == Add(Add(block, BLOCK_SIZE), size)
      s0 == Load(s, rs, Add(block, OFF_SIZE))
      s1 == Store(s0, rs, Add(new_block, OFF_SIZE),
                  Sub(Sub(Rd(s0.mem, Add(block, OFF_SIZE)), size), BLOCK_SIZE))
      s2 == Store(s1, rs, Add(new_block, OFF_FREE), 1)
      s3 == Load(s2, rs, Add(block, OFF_NEXT))
      s4 == Store(s3, rs, Add(new_block, OFF_NEXT), Rd(s3.mem, Add(block, OFF_NEXT)))
      s5 == Store(s4, rs, Add(new_block, OFF_PREV), block)
      nn == Rd(s5.mem, Add(new_block, OFF_NEXT))
      s6 == IF nn # NULL THEN Store(s5, rs, Add(nn, OFF_PREV), new_block) ELSE s5
      s7 == Store(s6, rs, Add(block, OFF_SIZE), size)
  IN  Store(s7, rs, Add(block, OFF_NEXT), new_block)

\* the first half of merge_blocks: absorb the successor if it is free
merge_next(s, rs, block) ==
  LET s0 == Load(s, rs, Add(block, OFF_NEXT))
      nx == Rd(s0.mem, Add(block, OFF_NEXT))
      s1 == IF nx # NULL THEN Load(s0, rs, Add(nx, OFF_FREE)) ELSE s0
  IN  IF nx # NULL /\ Rd(s1.mem, Add(nx, OFF_FREE)) # 0
      THEN LET s2 == Load(Load(s1, rs, Add(nx, OFF_SIZE)), rs, Add(block, OFF_SIZE))
               s3 == Store(s2, rs, Add(block, OFF_SIZE),
                           Add(Rd(s2.mem, Add(block, OFF_SIZE)),
                               Add(BLOCK_SIZE, Rd(s2.mem, Add(nx, OFF_SIZE)))))
               s4 == Load(s3, rs, Add(nx, OFF_NEXT))
               s5 == Store(s4, rs, Add(block, OFF_NEXT), Rd(s4.mem, Add(nx, OFF_NEXT)))
               n2 == Rd(s5.mem, Add(block, OFF_NEXT))
           IN  IF n2 # NULL THEN Store(s5, rs, Add(n2, OFF_PREV), block) ELSE s5
      ELSE s1

\* the second half of merge_blocks with the predecessor's next left as it is
merge_prev_KeepNext(s, rs, block) ==
  LET s0 == Load(s, rs, Add(block, OFF_PREV))
      pv == Rd(s0.mem, Add(block, OFF_PREV))
      s1 == IF pv # NULL THEN Load(s0, rs, Add(pv, OFF_FREE)) ELSE s0
  IN  IF pv # NULL /\ Rd(s1.mem, Add(pv, OFF_FREE)) # 0
      THEN LET s2 == Load(Load(s1, rs, Add(pv, OFF_SIZE)), rs, Add(block, OFF_SIZE))
           IN  Store(s2, rs, Add(pv, OFF_SIZE),
                     Add(Rd(s2.mem, Add(pv, OFF_SIZE)),
                         Add(BLOCK_SIZE, Rd(s2.mem, Add(block, OFF_SIZE)))))
      ELSE s1

\* the second half of merge_blocks: let the predecessor absorb block if it is free
merge_prev(s, rs, block) ==
  LET s0 == Load(s, rs, Add(block, OFF_PREV))
      pv == Rd(s0.mem, Add(block, OFF_PREV))
      s1 == IF pv # NULL THEN Load(s0, rs, Add(pv, OFF_FREE)) ELSE s0
  IN  IF pv # NULL /\ Rd(s1.mem, Add(pv, OFF_FREE)) # 0
      THEN LET s2 == Load(Load(s1, rs, Add(pv, OFF_SIZE)), rs, Add(block, OFF_SIZE))
               s3 == Store(s2, rs, Add(pv, OFF_SIZE),
                           Add(Rd(s2.mem, Add(pv, OFF_SIZE)),
                               Add(BLOCK_SIZE, Rd(s2.mem, Add(block, OFF_SIZE)))))
               s4 == Load(s3, rs, Add(block, OFF_NEXT))
               s5 == Store(s4, rs, Add(pv, OFF_NEXT), Rd(s4.mem, Add(block, OFF_NEXT)))
               n2 == Rd(s5.mem, Add(block, OFF_NEXT))
           IN  IF n2 # NULL THEN Store(s5, rs, Add(n2, OFF_PREV), pv) ELSE s5
      ELSE s1

merge_blocks(s, rs, block) == merge_prev(merge_next(s, rs, block), rs, block)

(* ---------------------------------------------------------------------- *)
(* The operating system: mmap                                              *)
(* ---------------------------------------------------------------------- *)
\* MAP_FAILED is (void*)-1
MAP_FAILED == WORD - 1

\* the page-aligned addresses at which a mapping of len bytes fits: inside
\* the address space and disjoint from every mapped region
FreeBases(rs, len) ==
  {b \in {k * PAGE_SIZE : k \in 1 .. AddrPages} :
     /\ len > 0
     /\ b + len <= (AddrPages + 1) * PAGE_SIZE
     /\ \A r \in rs : b + len <= r.base \/ r.base + r.len <= b}

\* what mmap(NULL, len, ...) may return: the OS may always refuse, and it
\* chooses the address of a mapping it grants; the model's OS places it
\* bottom-up or top-down, at the lowest or the highest address that fits
MmapResults(rs, len) ==
  LET fb == FreeBases(rs, len) IN
  {MAP_FAILED} \cup {b \in fb : (\A c \in fb : b <= c) \/ (\A c \in fb : c <= b)}

\* size + BLOCK_SIZE rounded up to the page size, as extend_heap computes it
MapLength(size) ==
  LET t == Add(Add(size, BLOCK_SIZE), PAGE_SIZE - 1) IN t - (t % PAGE_SIZE)

\* munmap(addr, len): the mappings and the memory afterwards.  The call
\* fails (EINVAL) and changes nothing when addr is not a multiple of the
\* page size, when len is 0 or when the range leaves the address space;
\* otherwise every page that holds a byte of [addr, addr + len) is unmapped
\* and its contents are lost.
munmap(m, rs, addr, len) ==
  LET t == len + PAGE_SIZE - 1
      end == addr + (t - (t % PAGE_SIZE))
  IN  IF addr % PAGE_SIZE # 0 \/ len = 0 \/ end > WORD
      THEN [mem |-> m, regions |-> rs]
      ELSE [mem |-> [x \in {y \in DOMAIN m : y < addr \/ y >= end} |-> m[x]],
            regions |->
              {[base |-> r.base, len |-> addr - r.base] :
                 r \in {q \in rs : q.base < addr /\ addr < q.base + q.len}}
              \cup {[base |-> end, len |-> r.base + r.len - end] :
                 r \in {q \in rs : q.base < end /\ end < q.base + q.len}}
              \cup {r \in rs : r.base + r.len <= addr \/ end <= r.base}]

(* ---------------------------------------------------------------------- *)
(* The heap: memory, list head and mapped regions.  The functions below    *)
(* take a heap and return the heap after the call together with the        *)
(* returned pointer, how the call ended (st) and whether mmap refused.     *)
(* ---------------------------------------------------------------------- *)
Outcome(m, head, rs, ret, st, failed) ==
  [mem |-> m, free_list |-> head, regions |-> rs, ret |-> ret, st |-> st,
   mmapFail |-> failed]

\* extend_heap with the new block linked in before the result of mmap is
\* checked
extend_heap_LinkFirst(h, last, size, os) ==
  LET total == MapLength(size)
      block == os
      rs == IF os = MAP_FAILED THEN h.regions
            ELSE h.regions \cup {[base |-> os, len |-> total]}
      s0 == [mem |-> h.mem, ok |-> TRUE]
      s1 == IF last # NULL THEN Store(s0, rs, Add(last, OFF_NEXT), block) ELSE s0
      head == IF last # NULL THEN h.free_list ELSE block
  IN  IF os = MAP_FAILED
      THEN Outcome(s1.mem, head, rs, NULL, IF s1.ok THEN "ok" ELSE "segv", TRUE)
      ELSE LET s2 == Store(s1, rs, Add(block, OFF_SIZE), Sub(total, BLOCK_SIZE))
               s3 == Store(s2, rs, Add(block, OFF_FREE), 0)
               s4 == Store(s3, rs, Add(block, OFF_NEXT), NULL)
               s5 == Store(s4, rs, Add(block, OFF_PREV), last)
           IN  Outcome(s5.mem, head, rs, block, IF s5.ok THEN "ok" ELSE "segv", FALSE)

\* extend_heap(last, size) where mmap returns os
extend_heap(h, last, size, os) ==
  LET total == MapLength(size) IN
  IF os = MAP_FAILED
  THEN Outcome(h.mem, h.free_list, h.regions, NULL, "ok", TRUE)
  ELSE LET block == os
           rs == h.regions \cup {[base |-> os, len |-> total]}
           s0 == [mem |-> h.mem, ok |-> TRUE]
           s1 == Store(s0, rs, Add(block, OFF_SIZE), Sub(total, BLOCK_SIZE))
           s2 == Store(s1, rs, Add(block, OFF_FREE), 0)
           s3 == Store(s2, rs, Add(block, OFF_NEXT), NULL)
           s4 == Store(s3, rs, Add(block, OFF_PREV), last)
           s5 == IF last # NULL THEN Store(s4, rs, Add(last, OFF_NEXT), block) ELSE s4
       IN  Outcome(s5.mem, IF last # NULL THEN h.free_list ELSE block, rs,
                   block, IF s5.ok THEN "ok" ELSE "segv", FALSE)

\* whether allocator_malloc has to map memory: the first-fit walk ends
\* without a block
NeedsMmap(h, size) ==
  LET f == find_block(h.mem, h.regions, h.free_list, size)
  IN  f.st = "ok" /\ f.block = NULL

\* the locked part of allocator_malloc, size already aligned
malloc_locked(h, size, os) ==
  LET f == find_block(h.mem, h.regions, h.free_list, size) IN
  IF f.st # "ok" THEN Outcome(h.mem, h.free_list, h.regions, NULL, f.st, FALSE)
  ELSE IF f.block # NULL
  THEN LET block == f.block
           s0 == Store([mem |-> h.mem, ok |-> TRUE], h.regions, Add(block, OFF_FREE), 0)
           s1 == Load(s0, h.regions, Add(block, OFF_SIZE))
           s2 == IF Rd(s1.mem, Add(block, OFF_SIZE))
                      > Add(Add(size, BLOCK_SIZE), ALIGNMENT)
                 THEN split_block(s1, h.regions, block, size) ELSE s1
       IN  Outcome(s2.mem, h.free_list, h.regions, Add(block, BLOCK_SIZE),
                   IF s2.ok THEN "ok" ELSE "segv", FALSE)
  ELSE LET e == extend_heap(h, h.free_list, size, os)
       IN  IF e.ret = NULL THEN e
           ELSE Outcome(e.mem, e.free_list, e.regions, Add(e.ret, BLOCK_SIZE),
                        e.st, FALSE)

\* the locked part of allocator_free giving the block's mapping back to the OS
free_locked_Unmap(h, ptr) ==
  LET block == get_block(ptr)
      v == valid_block(h.mem, h.regions, block)
  IN  IF ~v.ok THEN Outcome(h.mem, h.free_list, h.regions, NULL, "segv", FALSE)
      ELSE IF ~v.valid THEN Outcome(h.mem, h.free_list, h.regions, NULL, "ok", FALSE)
      ELSE LET s0 == Store([mem |-> h.mem, ok |-> TRUE], h.regions,
                           Add(block, OFF_FREE), 1)
               s1 == merge_blocks(s0, h.regions, block)
           IN  Outcome(s1.mem, h.free_list, {r \in h.regions : r.base # block}, NULL,
                       IF s1.ok THEN "ok" ELSE "segv", FALSE)

\* the locked part of allocator_free, ptr not NULL
free_locked(h, ptr) ==
  LET block == get_block(ptr)
      v == valid_block(h.mem, h.regions, block)
  IN  IF ~v.ok THEN Outcome(h.mem, h.free_list, h.regions, NULL, "segv", FALSE)
      ELSE IF ~v.valid THEN Outcome(h.mem, h.free_list, h.regions, NULL, "ok", FALSE)
      ELSE LET s0 == Store([mem |-> h.mem, ok |-> TRUE], h.regions,
                           Add(block, OFF_FREE), 1)
               s1 == merge_blocks(s0, h.regions, block)
           IN  Outcome(s1.mem, h.free_list, h.regions, NULL,
                       IF s1.ok THEN "ok" ELSE "segv", FALSE)

\* allocator_realloc releasing the old block before it has the new one
realloc_locked_FreeFirst(h, ptr, size) ==
  LET block == get_block(ptr)
      s0 == Load([mem |-> h.mem, ok |-> TRUE], h.regions, Add(block, OFF_SIZE))
      bsize == Rd(s0.mem, Add(block, OFF_SIZE))
  IN  IF bsize >= size
      THEN LET s1 == IF bsize > Add(Add(size, BLOCK_SIZE), ALIGNMENT)
                     THEN split_block(s0, h.regions, block, size) ELSE s0
           IN  Outcome(s1.mem, h.free_list, h.regions, ptr,
                       IF s1.ok THEN "ok" ELSE "segv", FALSE)
      ELSE free_locked(h, ptr)

\* the locked part of allocator_realloc: ret is ptr when the block is large
\* enough (shrunk in place), NULL when the caller has to take the grow path
\* the locked part of allocator_realloc splitting every block that is large enough
realloc_locked_AlwaysSplit(h, ptr, size) ==
  LET block == get_block(ptr)
      s0 == Load([mem |-> h.mem, ok |-> TRUE], h.regions, Add(block, OFF_SIZE))
      bsize == Rd(s0.mem, Add(block, OFF_SIZE))
  IN  IF bsize >= size
      THEN LET s1 == split_block(s0, h.regions, block, size)
           IN  Outcome(s1.mem, h.free_list, h.regions, ptr,
                       IF s1.ok THEN "ok" ELSE "segv", FALSE)
      ELSE Outcome(h.mem, h.free_list, h.regions, NULL,
                   IF s0.ok THEN "ok" ELSE "segv", FALSE)

realloc_locked(h, ptr, size) ==
  LET block == get_block(ptr)
      s0 == Load([mem |-> h.mem, ok |-> TRUE], h.regions, Add(block, OFF_SIZE))
      bsize == Rd(s0.mem, Add(block, OFF_SIZE))
  IN  IF bsize >= size
      THEN LET s1 == IF bsize > Add(Add(size, BLOCK_SIZE), ALIGNMENT)
                     THEN split_block(s0, h.regions, block, size) ELSE s0
           IN  Outcome(s1.mem, h.free_list, h.regions, ptr,
                       IF s1.ok THEN "ok" ELSE "segv", FALSE)
      ELSE Outcome(h.mem, h.free_list, h.regions, NULL,
                   IF s0.ok THEN "ok" ELSE "segv", FALSE)

\* the loop of allocator_destroy from current on; seen are the blocks
\* already visited
RECURSIVE destroy_from(_, _, _, _)
destroy_from(m, rs, current, seen) ==
  IF current = NULL THEN Outcome(m, NULL, rs, NULL, "ok", FALSE)
  ELSE IF ~Mapped(rs, Add(current, OFF_NEXT)) \/ ~Mapped(rs, Add(current, OFF_FREE))
  THEN Outcome(m, NULL, rs, NULL, "segv", FALSE)
  ELSE IF current \in seen THEN Outcome(m, NULL, rs, NULL, "hang", FALSE)
  ELSE IF Rd(m, Add(current, OFF_FREE)) # 0
  THEN destroy_from(m, rs, Rd(m, Add(current, OFF_NEXT)), seen \cup {current})
  ELSE IF ~Mapped(rs, Add(current, OFF_SIZE))
  THEN Outcome(m, NULL, rs, NULL, "segv", FALSE)
  ELSE LET u == munmap(m, rs, current,
                       Add(Rd(m, Add(current, OFF_SIZE)), BLOCK_SIZE))
       IN  destroy_from(u.mem, u.regions, Rd(m, Add(current, OFF_NEXT)),
                        seen \cup {current})

\* the locked part of allocator_destroy
\* the locked part of allocator_destroy without free_list = NULL
destroy_locked_KeepHead(h) ==
  LET o == destroy_from(h.mem, h.regions, h.free_list, {})
  IN  Outcome(o.mem, h.free_list, o.regions, NULL, o.st, FALSE)

destroy_locked(h) == destroy_from(h.mem, h.regions, h.free_list, {})

\* the <<addr, len>> arguments of the munmap calls of allocator_destroy's
\* loop from current on, up to its end or to the access that kills it
RECURSIVE destroy_calls(_, _, _, _)
destroy_calls(m, rs, current, seen) ==
  IF current = NULL \/ current \in seen
     \/ ~Mapped(rs, Add(current, OFF_NEXT)) \/ ~Mapped(rs, Add(current, OFF_FREE))
  THEN {}
  ELSE IF Rd(m, Add(current, OFF_FREE)) # 0
  THEN destroy_calls(m, rs, Rd(m, Add(current, OFF_NEXT)), seen \cup {current})
  ELSE IF ~Mapped(rs, Add(current, OFF_SIZE)) THEN {}
  ELSE LET len == Add(Rd(m, Add(current, OFF_SIZE)), BLOCK_SIZE)
           u == munmap(m, rs, current, len)
       IN  {<<current, len>>}
           \cup destroy_calls(u.mem, u.regions, Rd(m, Add(current, OFF_NEXT)),
                              seen \cup {current})

\* the addresses of the words of [a, a + len)
Words(a, len) == {a + 8 * i : i \in 0 .. ((len + 7) \div 8) - 1}

\* the word whose bytes all are c, cut to the word width (c * 0x010101
\* covers the words of up to 24 bits the model uses)
ByteFill(c) == (c * 65793) % WORD

\* memset(ptr, c, len)
memset(m, ptr, c, len) ==
  LET ws == Words(ptr, len) IN
  IF c = 0 THEN [x \in (DOMAIN m) \ ws |-> m[x]]
  ELSE [x \in (DOMAIN m) \cup ws |-> IF x \in ws THEN ByteFill(c) ELSE m[x]]

\* memcpy(dst, src, len).  When the ranges overlap the C standard leaves
\* the result undefined: fwd chooses between the two results the usual
\* implementations give, a forward word copy and a copy through a buffer.
memcpy(m, dst, src, len, fwd) ==
  LET ws == Words(dst, len)
      d == dst - src
      from(x) == IF fwd /\ d > 0 /\ d < len
                 THEN src + ((x - dst) % d)
                 ELSE src + (x - dst)
      nz == {x \in ws : Rd(m, from(x)) # 0}
  IN  [x \in ((DOMAIN m) \ ws) \cup nz |-> IF x \in nz THEN m[from(x)] ELSE m[x]]

\* the two byte ranges overlap
Overlap(a, alen, b, blen) == alen > 0 /\ blen > 0 /\ a < b + blen /\ b < a + alen

(* ---------------------------------------------------------------------- *)
(* Threads.  fr[t] is the activation of the public call thread t is in:    *)
(* its position pc, its arguments and its locals.  live[t] are the         *)
(* allocations t holds, result[t] what t's last finished call returned.    *)
(* ---------------------------------------------------------------------- *)
IdleFrame ==
  [pc |-> "idle", op |-> "none", ptr |-> NULL, size |-> 0, asz |-> 0,
   new_ptr |-> NULL, oldn |-> 0, hadPat |-> FALSE, snap |-> <<>>,
   mmapFail |-> FALSE, path |-> "none", nmemb |-> 0, elsz |-> 0]

NoResult ==
  [op |-> "none", ptr |-> NULL, size |-> 0, ret |-> NULL, oldn |-> 0,
   hadPat |-> FALSE, snap |-> <<>>, mmapFail |-> FALSE, path |-> "none",
   dup |-> FALSE, nmemb |-> 0, elsz |-> 0]

Heap == [mem |-> mem, free_list |-> free_list, regions |-> regions]

\* the four header words of block
Header(m, block) ==
  <<Rd(m, Add(block, OFF_SIZE)), Rd(m, Add(block, OFF_FREE)),
    Rd(m, Add(block, OFF_NEXT)), Rd(m, Add(block, OFF_PREV))>>

\* every word of [p, p + n) holds the fill pattern
HasPattern(m, p, n) == \A x \in Words(p, n) : Rd(m, x) = ByteFill(INIT_PATTERN)

CanCall(t, op) ==
  fate = "run" /\ fr[t].pc = "idle" /\ budget[t] > 0 /\ op \in kinds[t]

\* the pointers t passes to free and realloc: its allocations and, for a
\* client that passes stale pointers, the ones it gave back
Held(t) ==
  live[t] \cup (IF "stale" \in kinds[t] THEN {[p |-> q, n |-> 0] : q \in gone[t]}
               ELSE {})

\* The calls that overlap in time, for the comparison with a sequential run:
\* h0 is the heap when the first of them began, calls[t] is thread t's call.
\* The record is kept while track is set and is valid as long as every
\* thread has made at most one call since h0.
NoCall == [op |-> "none", ptr |-> NULL, size |-> 0]

NoRace ==
  [track |-> FALSE, valid |-> FALSE,
   h0 |-> [mem |-> [x \in {} |-> 0], free_list |-> NULL, regions |-> {}],
   calls |-> [t \in Threads |-> NoCall]]

\* thread t begins the call c
Begin(t, c) ==
  race' = IF ~race.track THEN race
          ELSE IF \A u \in Threads : fr[u].pc = "idle"
          THEN [track |-> TRUE, valid |-> TRUE, h0 |-> Heap,
                calls |-> [u \in Threads |-> IF u = t THEN c ELSE NoCall]]
          ELSE IF race.calls[t].op # "none"
          THEN [race EXCEPT !.valid = FALSE]
          ELSE [race EXCEPT !.calls[t] = c]

\* the allocations t holds after its call with activation f returned ret
LiveAfter(t, f, ret) ==
  CASE f.op \in {"malloc", "calloc"} \/ (f.op = "realloc" /\ f.ptr = NULL) ->
         IF ret # NULL THEN live[t] \cup {[p |-> ret, n |-> f.size]}
         ELSE live[t]
    [] f.op = "free" \/ (f.op = "realloc" /\ f.size = 0) ->
         {r \in live[t] : r.p # f.ptr}
    [] OTHER ->
         IF ret = NULL THEN live[t]
         ELSE {r \in live[t] : r.p # f.ptr} \cup {[p |-> ret, n |-> f.size]}

\* the pointers t gave back and may wrongly pass again (kept only for a
\* client that passes stale pointers), after its call with activation f
\* returned ret
GoneAfter(t, f, ret) ==
  IF "stale" \notin kinds[t] THEN gone[t]
  ELSE (gone[t] \cup {r.p : r \in live[t] \ LiveAfter(t, f, ret)}) \ {ret}

\* thread t's call with activation f returns ret
Return(t, f, ret) ==
  /\ fr' = [fr EXCEPT ![t] = IdleFrame]
  /\ live' = [live EXCEPT ![t] = LiveAfter(t, f, ret)]
  /\ gone' = [gone EXCEPT ![t] = GoneAfter(t, f, ret)]
  /\ result' = [result EXCEPT ![t] =
        [op |-> f.op, ptr |-> f.ptr, size |-> f.size, ret |-> ret, oldn |-> f.oldn,
         hadPat |-> f.hadPat, snap |-> f.snap, mmapFail |-> f.mmapFail,
         path |-> f.path, nmemb |-> f.nmemb, elsz |-> f.elsz,
         dup |-> ret # NULL /\ \E u \in Threads : \E r \in live[u] :
                                 r.p = ret /\ ~(u = t /\ r.p = f.ptr)]]

\* the heap becomes the one of outcome o
Commit(o) ==
  /\ mem' = o.mem
  /\ free_list' = o.free_list
  /\ regions' = o.regions

\* the process dies (SIGSEGV) or the thread spins forever inside the call
Die(st) ==
  /\ fate' = st
  /\ UNCHANGED <<mem, free_list, regions, lock, fr, live, gone, result, budget, sizes,
               kinds, race>>

\* allocator_malloc without its test for a zero size
EnterMalloc_NoZeroTest(t, f, size) ==
  /\ fr' = [fr EXCEPT ![t] = [f EXCEPT !.pc = "m_lock", !.asz = align_size(size)]]
  /\ UNCHANGED <<live, gone, result>>

\* allocator_malloc without the rounding of size by align_size
EnterMalloc_Unaligned(t, f, size) ==
  IF size = 0 THEN Return(t, f, NULL)
  ELSE /\ fr' = [fr EXCEPT ![t] = [f EXCEPT !.pc = "m_lock", !.asz = size]]
       /\ UNCHANGED <<live, gone, result>>

\* allocator_malloc(size) up to the lock: a zero size returns NULL at once
EnterMalloc(t, f, size) ==
  IF size = 0 THEN Return(t, f, NULL)
  ELSE /\ fr' = [fr EXCEPT ![t] = [f EXCEPT !.pc = "m_lock", !.asz = align_size(size)]]
       /\ UNCHANGED <<live, gone, result>>

\* allocator_free without its test for a NULL pointer
EnterFree_NoNullTest(t, f, ptr) ==
  /\ fr' = [fr EXCEPT ![t] = [f EXCEPT !.pc = "f_lock"]]
  /\ UNCHANGED <<live, gone, result>>

\* allocator_free(ptr) up to the lock: a NULL pointer returns at once
EnterFree(t, f, ptr) ==
  IF ptr = NULL THEN Return(t, f, NULL)
  ELSE /\ fr' = [fr EXCEPT ![t] = [f EXCEPT !.pc = "f_lock"]]
       /\ UNCHANGED <<live, gone, result>>

(* ------------------------------ the calls ------------------------------ *)
CallMalloc(t) ==
  /\ CanCall(t, "malloc")
  /\ Cardinality(live[t]) < MaxLive
  /\ \E n \in sizes :
       /\ EnterMalloc(t, [IdleFrame EXCEPT !.op = "malloc", !.size = n], n)
       /\ Begin(t, [op |-> "malloc", ptr |-> NULL, size |-> n])
  /\ budget' = [budget EXCEPT ![t] = @ - 1]
  /\ UNCHANGED <<mem, free_list, regions, lock, sizes, kinds, fate>>

\* allocator_calloc: total_size = nmemb * size, then allocator_malloc
CallCalloc(t) ==
  /\ CanCall(t, "calloc")
  /\ Cardinality(live[t]) < MaxLive
  /\ \E a \in CallocArgs \cup (IF "wrap" \in kinds[t] THEN WrapArgs ELSE {}) :
       LET total_size == (a[1] * a[2]) % WORD IN
       /\ EnterMalloc(t, [IdleFrame EXCEPT !.op = "calloc", !.size = total_size,
                                          !.nmemb = a[1], !.elsz = a[2]],
                      total_size)
       /\ Begin(t, [op |-> "calloc", ptr |-> NULL, size |-> total_size])
  /\ budget' = [budget EXCEPT ![t] = @ - 1]
  /\ UNCHANGED <<mem, free_list, regions, lock, sizes, kinds, fate>>

CallFree(t) ==
  /\ CanCall(t, "free")
  /\ \E r \in Held(t) \cup (IF "null" \in kinds[t] THEN {[p |-> NULL, n |-> 0]} ELSE {}) :
       /\ EnterFree(t, [IdleFrame EXCEPT !.op = "free", !.ptr = r.p, !.oldn = r.n], r.p)
       /\ Begin(t, [op |-> "free", ptr |-> r.p, size |-> 0])
  /\ budget' = [budget EXCEPT ![t] = @ - 1]
  /\ UNCHANGED <<mem, free_list, regions, lock, sizes, kinds, fate>>

\* allocator_realloc up to its lock: the NULL-pointer and zero-size cases,
\* then get_block and valid_block, which read the header without the lock
CallRealloc(t) ==
  /\ CanCall(t, "realloc")
  /\ \E n \in sizes :
       \/ /\ Cardinality(live[t]) < MaxLive
          /\ EnterMalloc(t, [IdleFrame EXCEPT !.op = "realloc", !.size = n], n)
          /\ Begin(t, [op |-> "realloc", ptr |-> NULL, size |-> n])
          /\ UNCHANGED fate
       \/ \E r \in Held(t) :
            /\ Begin(t, [op |-> "realloc", ptr |-> r.p, size |-> n])
            /\ LET f == [IdleFrame EXCEPT !.op = "realloc", !.ptr = r.p, !.size = n,
                                          !.oldn = r.n,
                                          !.hadPat = HasPattern(mem, r.p, r.n),
                                          !.snap = Header(mem, get_block(r.p))]
                   v == valid_block(mem, regions, get_block(r.p))
               IN  IF n = 0 THEN EnterFree(t, f, r.p) /\ UNCHANGED fate
                   ELSE IF ~v.ok
                   THEN fate' = "segv" /\ UNCHANGED <<fr, live, gone, result>>
                   ELSE IF ~v.valid
                   THEN Return(t, [f EXCEPT !.path = "invalid"], NULL) /\ UNCHANGED fate
                   ELSE /\ fr' = [fr EXCEPT ![t] =
                                    [f EXCEPT !.pc = "r_lock", !.asz = align_size(n)]]
                        /\ UNCHANGED <<live, gone, result, fate>>
  /\ budget' = [budget EXCEPT ![t] = @ - 1]
  /\ UNCHANGED <<mem, free_list, regions, lock, sizes, kinds>>

\* allocator_init with a reset of the list head
CallInit_Reset(t) ==
  /\ CanCall(t, "init")
  /\ Return(t, [IdleFrame EXCEPT !.op = "init"], 0)
  /\ Begin(t, [op |-> "init", ptr |-> NULL, size |-> 0])
  /\ free_list' = NULL
  /\ budget' = [budget EXCEPT ![t] = @ - 1]
  /\ UNCHANGED <<mem, regions, lock, sizes, kinds, fate>>

\* allocator_init: return 0
CallInit(t) ==
  /\ CanCall(t, "init")
  /\ Return(t, [IdleFrame EXCEPT !.op = "init"], 0)
  /\ Begin(t, [op |-> "init", ptr |-> NULL, size |-> 0])
  /\ budget' = [budget EXCEPT ![t] = @ - 1]
  /\ UNCHANGED <<mem, free_list, regions, lock, sizes, kinds, fate>>

\* allocator_destroy up to its lock; the client calls it when no other
\* call is in progress
CallDestroy(t) ==
  /\ CanCall(t, "destroy")
  /\ \A u \in Threads : fr[u].pc = "idle"
  /\ fr' = [fr EXCEPT ![t] = [IdleFrame EXCEPT !.pc = "d_lock", !.op = "destroy"]]
  /\ Begin(t, [op |-> "destroy", ptr |-> NULL, size |-> 0])
  /\ budget' = [budget EXCEPT ![t] = @ - 1]
  /\ UNCHANGED <<mem, free_list, regions, lock, live, gone, result, sizes, kinds, fate>>

\* the client fills one of its allocations: memset(ptr, INIT_PATTERN, n)
Fill(t) ==
  /\ fate = "run" /\ fr[t].pc = "idle"
  /\ \E r \in live[t] :
       /\ r.n \in FillSizes
       /\ ~HasPattern(mem, r.p, r.n)
       /\ IF RangeMapped(regions, r.p, r.n)
          THEN mem' = memset(mem, r.p, INIT_PATTERN, r.n) /\ UNCHANGED fate
          ELSE fate' = "segv" /\ UNCHANGED mem
  /\ UNCHANGED <<free_list, regions, lock, fr, live, gone, result, budget, sizes, kinds, race>>

(* ------------------------- pthread_mutex_lock -------------------------- *)
Acquire(t, at, to) ==
  /\ fate = "run" /\ fr[t].pc = at /\ lock = 0
  /\ lock' = t
  /\ fr' = [fr EXCEPT ![t].pc = to]
  /\ UNCHANGED <<mem, free_list, regions, live, gone, result, budget, sizes, kinds, race,
               fate>>

MallocLock(t) == Acquire(t, "m_lock", "m_crit")
FreeLock(t) == Acquire(t, "f_lock", "f_crit")
ReallocLock(t) == Acquire(t, "r_lock", "r_crit")
DestroyLock(t) == Acquire(t, "d_lock", "d_crit")

(* ---------------------- the parts run under the lock ------------------- *)
\* allocator_malloc from find_block to pthread_mutex_unlock, and what its
\* caller (the client, allocator_calloc or allocator_realloc) does with
\* the result
MallocCrit(t) ==
  /\ fate = "run" /\ fr[t].pc = "m_crit"
  /\ LET f == fr[t] IN
     \E os \in (IF NeedsMmap(Heap, f.asz)
                THEN MmapResults(regions, MapLength(f.asz)) ELSE {MAP_FAILED}) :
       LET o == malloc_locked(Heap, f.asz, os)
           hit == find_block(mem, regions, free_list, f.asz).block
           g == [f EXCEPT !.mmapFail = o.mmapFail,
                          !.path = IF f.op # "malloc" THEN f.path
                                   ELSE IF hit = NULL THEN "extend"
                                   ELSE IF Rd(mem, Add(hit, OFF_SIZE))
                                             > Add(Add(f.asz, BLOCK_SIZE), ALIGNMENT)
                                        THEN "split" ELSE "whole"]
       IN  IF o.st # "ok" THEN Die(o.st)
           ELSE /\ Commit(o)
                /\ lock' = 0
                /\ IF o.ret = NULL \/ f.op = "malloc" \/ (f.op = "realloc" /\ f.ptr = NULL)
                   THEN Return(t, g, o.ret)
                   ELSE /\ fr' = [fr EXCEPT ![t] =
                                    [g EXCEPT !.pc = IF f.op = "calloc" THEN "c_zero"
                                                     ELSE "r_copy",
                                              !.new_ptr = o.ret]]
                        /\ UNCHANGED <<live, gone, result>>
                /\ UNCHANGED <<budget, sizes, kinds, race, fate>>

\* allocator_free without the pthread_mutex_unlock before its early return
\* which of merge_blocks' two tests succeed for the block of ptr in heap h
BothFree(h, ptr) ==
  LET block == get_block(ptr)
      nx == Rd(h.mem, Add(block, OFF_NEXT))
      pv == Rd(h.mem, Add(block, OFF_PREV))
  IN  /\ nx # NULL /\ Rd(h.mem, Add(nx, OFF_FREE)) # 0
      /\ pv # NULL /\ Rd(h.mem, Add(pv, OFF_FREE)) # 0

FreeCrit_KeepLock(t) ==
  /\ fate = "run" /\ fr[t].pc = "f_crit"
  /\ LET f == fr[t]
         o == free_locked(Heap, f.ptr)
     IN  IF o.st # "ok" THEN Die(o.st)
         ELSE /\ Commit(o)
              /\ lock' = IF valid_block(mem, regions, get_block(f.ptr)).valid
                         THEN 0 ELSE lock
              /\ Return(t, IF valid_block(mem, regions, get_block(f.ptr)).valid THEN f
                           ELSE [f EXCEPT !.path = "invalid"],
                        IF f.op = "realloc" /\ f.size # 0 THEN f.new_ptr ELSE NULL)
              /\ UNCHANGED <<budget, sizes, kinds, race, fate>>

\* allocator_free from get_block to pthread_mutex_unlock; called from
\* allocator_realloc it is followed by that call's return
FreeCrit(t) ==
  /\ fate = "run" /\ fr[t].pc = "f_crit"
  /\ LET f == fr[t]
         o == free_locked(Heap, f.ptr)
     IN  IF o.st # "ok" THEN Die(o.st)
         ELSE /\ Commit(o)
              /\ lock' = 0
              /\ Return(t, IF ~valid_block(mem, regions, get_block(f.ptr)).valid
                           THEN [f EXCEPT !.path = "invalid"]
                           ELSE IF f.op = "free" /\ BothFree(Heap, f.ptr)
                           THEN [f EXCEPT !.path = "both"]
                           ELSE f,
                        IF f.op = "realloc" /\ f.size # 0 THEN f.new_ptr ELSE NULL)
              /\ UNCHANGED <<budget, sizes, kinds, race, fate>>

\* allocator_realloc calling allocator_malloc before pthread_mutex_unlock
ReallocCrit_KeepLock(t) ==
  /\ fate = "run" /\ fr[t].pc = "r_crit"
  /\ LET f == fr[t]
         o == realloc_locked(Heap, f.ptr, f.asz)
     IN  IF o.st # "ok" THEN Die(o.st)
         ELSE /\ Commit(o)
              /\ IF o.ret # NULL
                 THEN lock' = 0 /\ Return(t, [f EXCEPT !.path = "shrink"], f.ptr)
                 ELSE /\ fr' = [fr EXCEPT ![t] =
                                  [f EXCEPT !.pc = "m_lock", !.path = "grow",
                                            !.asz = align_size(f.asz)]]
                      /\ UNCHANGED <<lock, live, gone, result>>
              /\ UNCHANGED <<budget, sizes, kinds, race, fate>>

\* allocator_realloc between lock and unlock: the block is large enough and
\* is split down in place, or the call goes on to allocator_malloc(size)
ReallocCrit(t) ==
  /\ fate = "run" /\ fr[t].pc = "r_crit"
  /\ LET f == fr[t]
         o == realloc_locked(Heap, f.ptr, f.asz)
     IN  IF o.st # "ok" THEN Die(o.st)
         ELSE /\ Commit(o)
              /\ lock' = 0
              /\ IF o.ret # NULL
                 THEN Return(t, [f EXCEPT !.path = "shrink"], f.ptr)
                 ELSE /\ fr' = [fr EXCEPT ![t] =
                                  [f EXCEPT !.pc = "m_lock", !.path = "grow",
                                            !.asz = align_size(f.asz)]]
                      /\ UNCHANGED <<live, gone, result>>
              /\ UNCHANGED <<budget, sizes, kinds, race, fate>>

\* allocator_destroy between lock and unlock.  The pointers the clients
\* hold are of no use afterwards: they drop them.
DestroyCrit(t) ==
  /\ fate = "run" /\ fr[t].pc = "d_crit"
  /\ LET o == destroy_locked(Heap) IN
     IF o.st # "ok" THEN Die(o.st)
     ELSE /\ Commit(o)
          /\ lock' = 0
          /\ fr' = [fr EXCEPT ![t] = IdleFrame]
          /\ live' = [u \in Threads |-> {}]
          /\ gone' = [u \in Threads |-> {}]
          /\ result' = [result EXCEPT ![t] = [NoResult EXCEPT !.op = "destroy"]]
          /\ UNCHANGED <<budget, sizes, kinds, race, fate>>

(* --------------------- the parts run without the lock ------------------ *)
\* allocator_realloc: memcpy(new_ptr, ptr, block->size), then allocator_free(ptr)
ReallocCopy(t) ==
  /\ fate = "run" /\ fr[t].pc = "r_copy"
  /\ LET f == fr[t]
         block == get_block(f.ptr)
         len == Rd(mem, Add(block, OFF_SIZE))
     IN  IF ~Mapped(regions, Add(block, OFF_SIZE))
            \/ ~RangeMapped(regions, f.ptr, len)
            \/ ~RangeMapped(regions, f.new_ptr, len)
         THEN Die("segv")
         ELSE /\ \E fwd \in (IF Overlap(f.new_ptr, len, f.ptr, len)
                             THEN {TRUE, FALSE} ELSE {FALSE}) :
                   mem' = memcpy(mem, f.new_ptr, f.ptr, len, fwd)
              /\ fr' = [fr EXCEPT ![t].pc = "f_lock"]
              /\ UNCHANGED <<free_list, regions, lock, live, gone, result, budget, sizes,
                             kinds, race, fate>>

\* allocator_calloc: memset(ptr, 0, total_size), then return ptr
CallocZero(t) ==
  /\ fate = "run" /\ fr[t].pc = "c_zero"
  /\ LET f == fr[t] IN
     IF ~RangeMapped(regions, f.new_ptr, f.size) THEN Die("segv")
     ELSE /\ mem' = memset(mem, f.new_ptr, 0, f.size)
          /\ Return(t, f, f.new_ptr)
          /\ UNCHANGED <<free_list, regions, lock, budget, sizes, kinds, race, fate>>

(* ---------------------------------------------------------------------- *)
(* Specifications                                                          *)
(* ---------------------------------------------------------------------- *)
InitHeap ==
  /\ mem = [x \in {} |-> 0]
  /\ free_list = NULL
  /\ regions = {}
  /\ lock = 0
  /\ fr = [t \in Threads |-> IdleFrame]
  /\ live = [t \in Threads |-> {}]
  /\ gone = [t \in Threads |-> {}]
  /\ result = [t \in Threads |-> NoResult]
  /\ fate = "run"

\* Only(k): thread 1 makes k calls, the other threads none
Only(k) == [t \in Threads |-> IF t = 1 THEN k ELSE 0]
\* Two(k1, k2): thread 1 makes k1 calls, thread 2 makes k2, the others none
Two(k1, k2) == [t \in Threads |-> IF t = 1 THEN k1 ELSE IF t = 2 THEN k2 ELSE 0]

AllOps == {"malloc", "calloc", "realloc", "free"}
AnyOp == [t \in Threads |-> AllOps]
\* thread 2 only makes zeroed allocations, the others make the other calls
Zeroer == [t \in Threads |-> IF t = 2 THEN {"calloc"} ELSE AllOps \ {"calloc"}]
\* thread 2 only allocates, the others make every call
Taker == [t \in Threads |-> IF t = 2 THEN {"malloc"} ELSE AllOps]

\* thread 1 also passes the tagged arguments
With(tags) == [t \in Threads |-> IF t = 1 THEN AllOps \cup tags ELSE AllOps]

\* one client thread, all request sizes
Init ==
  /\ InitHeap /\ budget = Only(MaxOps) /\ sizes = ReqSizes
  /\ kinds = AnyOp /\ race = NoRace
\* one client thread, longer runs with the two larger request sizes
InitDeep ==
  /\ InitHeap /\ budget = Only(DeepOps) /\ sizes = {88, 4104}
  /\ kinds = AnyOp /\ race = NoRace
\* two threads racing for one free block, the two smaller request sizes;
\* the overlapping calls are recorded
InitMT ==
  /\ InitHeap /\ budget = Two(RaceOps1, RaceOps2) /\ sizes = {8, 88}
  /\ kinds = Taker /\ race = [NoRace EXCEPT !.track = TRUE]
\* two threads, the two larger request sizes
InitShare ==
  /\ InitHeap /\ budget = Two(ShareOps1, ShareOps2) /\ sizes = {88, 4104}
  /\ kinds = Zeroer /\ race = NoRace

\* one client thread that also passes pointers it gave back, the smallest
\* request size
InitStale ==
  /\ InitHeap /\ budget = Only(StaleOps) /\ sizes = {8}
  /\ kinds = With({"stale"}) /\ race = NoRace

\* one client thread that also passes size 0, NULL, pointers it gave back
\* and a calloc product beyond SIZE_MAX, and that calls allocator_destroy
InitEdge ==
  /\ InitHeap /\ budget = Only(EdgeOps) /\ sizes = {0, 88, 4104}
  /\ kinds = With({"null", "stale", "wrap", "destroy"}) /\ race = NoRace

\* one client thread that also calls allocator_init and allocator_destroy,
\* the two larger request sizes
InitLife ==
  /\ InitHeap /\ budget = Only(LifeOps) /\ sizes = {88, 4104}
  /\ kinds = With({"init", "destroy"}) /\ race = NoRace

\* one client making one allocate call with one of two request sizes taken
\* from both ends of size_t
InitAlign ==
  /\ InitHeap /\ budget = Only(1)
  /\ \E m \in AlignInputs : \E n \in AlignInputs : sizes = {m, n}
  /\ kinds = [t \in Threads |-> {"malloc"}] /\ race = NoRace

Next ==
  \/ \E t \in Threads : CallMalloc(t)
  \/ \E t \in Threads : CallCalloc(t)
  \/ \E t \in Threads : CallFree(t)
  \/ \E t \in Threads : CallRealloc(t)
  \/ \E t \in Threads : Fill(t)
  \/ \E t \in Threads : MallocLock(t)
  \/ \E t \in Threads : MallocCrit(t)
  \/ \E t \in Threads : FreeLock(t)
  \/ \E t \in Threads : FreeCrit(t)
  \/ \E t \in Threads : ReallocLock(t)
  \/ \E t \in Threads : ReallocCrit(t)
  \/ \E t \in Threads : ReallocCopy(t)
  \/ \E t \in Threads : CallocZero(t)

\* the calls of Next and allocator_destroy
NextLife ==
  \/ Next
  \/ \E t \in Threads : CallDestroy(t)
  \/ \E t \in Threads : DestroyLock(t)
  \/ \E t \in Threads : DestroyCrit(t)

\* thread t is inside a call and not in pthread_mutex_lock: its next step
\* can be taken
Running(t) ==
  fate = "run"
  /\ fr[t].pc \in {"m_crit", "f_crit", "r_crit", "d_crit", "r_copy", "c_zero"}
\* a step of thread t inside a call
Moves(t) == fr'[t] # fr[t] \/ fate' # fate
\* thread t getting the lock
Locks(t) == MallocLock(t) \/ FreeLock(t) \/ ReallocLock(t) \/ DestroyLock(t)

\* The scheduler lets a running thread run (weak fairness of its steps,
\* written with Running(t) for their enabledness), and the lock is fair: a
\* thread waiting in pthread_mutex_lock gets the lock if it is free again
\* and again.
Fairness ==
  \A t \in Threads :
    /\ SF_vars(Locks(t))
    /\ ([]<>(~Running(t)) \/ []<><<Moves(t)>>_vars)

\* the calls of NextLife and allocator_init
NextAll ==
  \/ NextLife
  \/ \E t \in Threads : CallInit(t)

\* allocator_malloc alone
NextAlloc ==
  \/ \E t \in Threads : CallMalloc(t)
  \/ \E t \in Threads : MallocLock(t)
  \/ \E t \in Threads : MallocCrit(t)

Spec == Init /\ [][Next]_vars
SpecFair == InitMT /\ [][Next]_vars /\ Fairness
SpecDeep == InitDeep /\ [][Next]_vars
SpecMT == InitMT /\ [][Next]_vars
SpecShare == InitShare /\ [][Next]_vars
SpecStale == InitStale /\ [][Next]_vars
SpecEdge == InitEdge /\ [][NextLife]_vars
SpecLife == InitLife /\ [][NextAll]_vars
SpecAlign == InitAlign /\ [][NextAlloc]_vars

(* ---------------------------------------------------------------------- *)
(* Reading the heap                                                        *)
(* ---------------------------------------------------------------------- *)
\* no call is in progress and the process is alive
Quiescent == fate = "run" /\ \A t \in Threads : fr[t].pc = "idle"

\* the blocks a walk from current along the next links visits, in order;
\* the walk stops at NULL, at a block it saw already and at unmapped memory
RECURSIVE Walk(_, _, _, _)
Walk(m, rs, current, seen) ==
  IF current = NULL \/ current \in seen
     \/ ~RangeMapped(rs, current, BLOCK_SIZE) THEN <<>>
  ELSE <<current>> \o Walk(m, rs, Rd(m, Add(current, OFF_NEXT)), seen \cup {current})

BlockList == Walk(mem, regions, free_list, {})
ListBlocks == {BlockList[i] : i \in 1 .. Len(BlockList)}

SizeOf(block) == Rd(mem, Add(block, OFF_SIZE))
IsFree(block) == Rd(mem, Add(block, OFF_FREE)) # 0
NextOf(block) == Rd(mem, Add(block, OFF_NEXT))
PrevOf(block) == Rd(mem, Add(block, OFF_PREV))

\* the allocations the clients hold
AllLive == UNION {live[t] : t \in Threads}

(* ---------------------------------------------------------------------- *)
(* C1                                                                      *)
(* ---------------------------------------------------------------------- *)
\* C1: after any sequence of calls that pass live pointers only, the payload
\* ranges [p, p + block.size) of two distinct live allocations are disjoint
\* (and no call returns a pointer that is live already).
C1_PayloadsDisjoint ==
  Quiescent =>
    /\ \A t \in Threads : ~result[t].dup
    /\ \A r \in AllLive : \A q \in AllLive :
         r.p # q.p => ~Overlap(r.p, SizeOf(get_block(r.p)), q.p, SizeOf(get_block(q.p)))

(* ---------------------------------------------------------------------- *)
(* C2                                                                      *)
(* ---------------------------------------------------------------------- *)
\* block, header and payload, lies in memory the allocator mapped: every
\* byte of [block, block + BLOCK_SIZE + block.size) is in a mapped region
\* (regions that touch count as one)
InMappedMemory(block) == RangeMapped(regions, block, BLOCK_SIZE + SizeOf(block))

\* C2: after any sequence of public operations every block of the list lies,
\* header and payload, inside memory the allocator mapped, so the payload of
\* a pointer allocate returned is writable.
C2_BlocksInsideRegions ==
  Quiescent => \A b \in ListBlocks : InMappedMemory(b)

(* ---------------------------------------------------------------------- *)
(* C5                                                                      *)
(* ---------------------------------------------------------------------- *)
\* C5: no block header is leaked: a walk of the list from the head finds
\* every block, so it finds the block of every allocation a client holds.
C5_LiveBlocksReachable ==
  Quiescent => \A r \in AllLive : get_block(r.p) \in ListBlocks

(* ---------------------------------------------------------------------- *)
(* C6                                                                      *)
(* ---------------------------------------------------------------------- *)
\* C6 (invariant I3): when a public operation has returned, no block of the
\* list is free with a free successor.
C6_NoAdjacentFree ==
  Quiescent =>
    \A b \in ListBlocks : ~(IsFree(b) /\ NextOf(b) # NULL /\ IsFree(NextOf(b)))

(* ---------------------------------------------------------------------- *)
(* C10                                                                     *)
(* ---------------------------------------------------------------------- *)
\* C10: only a refused mapping makes allocate(n), n > 0, fail: the call
\* comes back, and with a pointer unless mmap refused.
C10_OnlyMmapFailureFails ==
  \A t \in Threads :
    /\ fr[t].op = "malloc" => fate = "run"
    /\ (result[t].op = "malloc" /\ result[t].size > 0 /\ ~result[t].mmapFail)
         => result[t].ret # NULL

(* ---------------------------------------------------------------------- *)
(* C7                                                                      *)
(* ---------------------------------------------------------------------- *)
Min(a, b) == IF a < b THEN a ELSE b

\* thread t's call returns in this step
Returns(t) == fr[t].pc # "idle" /\ fr'[t].pc = "idle"

\* C7: if the n bytes at p hold the pattern when resize(p, m) is called and
\* the call returns q # NULL, the first min(n, m) bytes at q hold the pattern.
C7_ResizeKeepsData ==
  [][\A t \in Threads :
       (/\ Returns(t)
        /\ fr[t].op = "realloc" /\ fr[t].ptr # NULL /\ fr[t].size # 0
        /\ fr[t].hadPat
        /\ result'[t].ret # NULL)
       => HasPattern(mem', result'[t].ret, Min(fr[t].oldn, fr[t].size))]_vars

(* ---------------------------------------------------------------------- *)
(* C8                                                                      *)
(* ---------------------------------------------------------------------- *)
\* C8: when resize(p, m) needs a larger block and mmap refuses, resize
\* returns NULL and the block of p is as it was at the call: in use, with
\* the same size and links, and p is still a valid handle of the caller.
C8_FailedGrowKeepsBlock ==
  [][\A t \in Threads :
       (/\ Returns(t)
        /\ fr[t].op = "realloc" /\ fr[t].path = "grow"
        /\ result'[t].mmapFail)
       => /\ result'[t].ret = NULL
          /\ Header(mem', get_block(fr[t].ptr)) = fr[t].snap
          /\ fr[t].snap[2] = 0
          /\ valid_block(mem', regions', get_block(fr[t].ptr)).valid
          /\ [p |-> fr[t].ptr, n |-> fr[t].oldn] \in live'[t]]_vars

\* a resize that took the grow path has returned NULL after mmap refused
C8_Witness ==
  \E t \in Threads :
    /\ fr[t].pc = "idle"
    /\ result[t].op = "realloc" /\ result[t].path = "grow"
    /\ result[t].mmapFail /\ result[t].ret = NULL
    /\ \E r \in live[t] : r.p = result[t].ptr

(* ---------------------------------------------------------------------- *)
(* C9                                                                      *)
(* ---------------------------------------------------------------------- *)
\* C9: when allocate(n) finds no fitting free block and mmap refuses, it
\* returns NULL and the list head and all of memory (every block's size,
\* free flag and links) are as before.
C9_FailedAllocKeepsHeap ==
  [][\A t \in Threads :
       (/\ fr[t].pc = "m_crit" /\ fr[t].op = "malloc"
        /\ NeedsMmap(Heap, fr[t].asz)
        /\ regions' = regions)
       => /\ Returns(t) /\ result'[t].ret = NULL /\ result'[t].mmapFail
          /\ mem' = mem /\ free_list' = free_list]_vars

\* allocate has returned NULL after mmap refused, in a heap that has blocks
C9_Witness ==
  \E t \in Threads :
    /\ fr[t].pc = "idle"
    /\ result[t].op = "malloc" /\ result[t].mmapFail /\ result[t].ret = NULL
    /\ free_list # NULL
    /\ \E b \in ListBlocks : IsFree(b)

(* ---------------------------------------------------------------------- *)
(* C4                                                                      *)
(* ---------------------------------------------------------------------- *)
\* the step is taken by a thread other than u
OtherActs(u) == fr'[u] = fr[u] /\ fr' # fr

\* C4: a step of another thread's operation leaves every byte of every
\* allocation that thread u holds as it was, so a pattern u wrote is still
\* there when u reads it back.
C4_NoForeignWrites ==
  [][\A u \in Threads : \A r \in live[u] :
       OtherActs(u) =>
         \A a \in Words(r.p, r.n) : Rd(mem', a) = Rd(mem, a)]_vars

(* ---------------------------------------------------------------------- *)
(* C3                                                                      *)
(* ---------------------------------------------------------------------- *)
\* the list of heap h as the sequence of <<address, size, free flag>>
AbsList(h) ==
  LET w == Walk(h.mem, h.regions, h.free_list, {})
  IN  [i \in 1 .. Len(w) |->
         <<w[i], Rd(h.mem, Add(w[i], OFF_SIZE)), Rd(h.mem, Add(w[i], OFF_FREE))>>]

HeapOf(o) == [mem |-> o.mem, free_list |-> o.free_list, regions |-> o.regions]
Done(h, ret, ok) == [h |-> h, ret |-> ret, ok |-> ok]

\* what mmap may answer to allocator_malloc(size) in heap h
OsAnswers(h, asz) ==
  IF NeedsMmap(h, asz) THEN MmapResults(h.regions, MapLength(asz)) ELSE {MAP_FAILED}

\* the results of allocator_malloc(size) run alone in heap h
AloneMalloc(h, size) ==
  IF size = 0 THEN {Done(h, NULL, TRUE)}
  ELSE {LET o == malloc_locked(h, align_size(size), os)
        IN  Done(HeapOf(o), o.ret, o.st = "ok") : os \in OsAnswers(h, align_size(size))}

\* the result of allocator_free(ptr) run alone in heap h
AloneFree(h, ptr) ==
  IF ptr = NULL THEN {Done(h, NULL, TRUE)}
  ELSE {LET o == free_locked(h, ptr) IN Done(HeapOf(o), NULL, o.st = "ok")}

\* the results of allocator_calloc run alone in heap h
AloneCalloc(h, total_size) ==
  {IF d.ok /\ d.ret # NULL
   THEN IF RangeMapped(d.h.regions, d.ret, total_size)
        THEN Done([d.h EXCEPT !.mem = memset(d.h.mem, d.ret, 0, total_size)], d.ret, TRUE)
        ELSE Done(d.h, d.ret, FALSE)
   ELSE d : d \in AloneMalloc(h, total_size)}

\* the results of allocator_realloc(ptr, size) run alone in heap h
AloneRealloc(h, ptr, size) ==
  IF ptr = NULL THEN AloneMalloc(h, size)
  ELSE IF size = 0 THEN AloneFree(h, ptr)
  ELSE
    LET block == get_block(ptr)
        v == valid_block(h.mem, h.regions, block)
        o == realloc_locked(h, ptr, align_size(size))
        len == Rd(h.mem, Add(block, OFF_SIZE))
    IN  IF ~v.ok THEN {Done(h, NULL, FALSE)}
        ELSE IF ~v.valid THEN {Done(h, NULL, TRUE)}
        ELSE IF o.st # "ok" THEN {Done(h, NULL, FALSE)}
        ELSE IF o.ret # NULL THEN {Done(HeapOf(o), ptr, TRUE)}
        ELSE UNION {
          IF ~d.ok \/ d.ret = NULL THEN {d}
          ELSE IF ~RangeMapped(d.h.regions, ptr, len)
                  \/ ~RangeMapped(d.h.regions, d.ret, len)
          THEN {Done(d.h, d.ret, FALSE)}
          ELSE {LET c == [d.h EXCEPT !.mem = memcpy(d.h.mem, d.ret, ptr, len, fwd)]
                    f == free_locked(c, ptr)
                IN  Done(HeapOf(f), d.ret, f.st = "ok") : fwd \in BOOLEAN}
          : d \in AloneMalloc(HeapOf(o), size)}

\* the results of call c run alone in heap h
Alone(h, c) ==
  CASE c.op = "malloc" -> AloneMalloc(h, c.size)
    [] c.op = "calloc" -> AloneCalloc(h, c.size)
    [] c.op = "free" -> AloneFree(h, c.ptr)
    [] c.op = "realloc" -> AloneRealloc(h, c.ptr, c.size)
    [] OTHER -> {Done(h, NULL, TRUE)}

\* the calls of the threads in todo can be run one at a time from heap h, in
\* some order, so that the list becomes the present one and each call returns
\* what it did return
RECURSIVE OneAtATime(_, _)
OneAtATime(h, todo) ==
  IF todo = {} THEN AbsList(h) = AbsList(Heap)
  ELSE \E t \in todo : \E d \in Alone(h, race.calls[t]) :
         /\ d.ok
         /\ d.ret = result[t].ret
         /\ OneAtATime(d.h, todo \ {t})

Callers == {t \in Threads : race.calls[t].op # "none"}

\* C3: when calls that overlapped in time have all returned, the block list
\* (order, sizes, free flags) and the values returned are those of some run
\* of the same calls one at a time, resize on its grow path included.
C3_Linearizable ==
  (Quiescent /\ race.track /\ race.valid) => OneAtATime(race.h0, Callers)

(* ---------------------------------------------------------------------- *)
(* Calls with trivial or invalid arguments                                 *)
(* ---------------------------------------------------------------------- *)
\* this step is thread t calling a public operation
Begins(t) == budget'[t] # budget[t]

\* the call t makes in this step: its operation and arguments
Called(t) == IF fr'[t].pc = "idle" THEN result'[t] ELSE fr'[t]

\* this step leaves the list head, every word of memory and the mappings alone
HeapSame == mem' = mem /\ free_list' = free_list /\ regions' = regions

\* p is a pointer t gave back that is nobody's allocation now
Stale(t, p) == p \in gone[t] /\ \A u \in Threads : \A r \in live[u] : r.p # p

\* C11: free(p) and realloc(p, m) with m > 0 on a pointer that was given
\* back and not handed out again change no word of the heap, not the list
\* head and not the mappings; free returns and realloc returns NULL.
C11_InvalidHandleIsNoOp ==
  [][\A t \in Threads :
       /\ (Begins(t) /\ Called(t).op = "realloc" /\ Called(t).size # 0
              /\ Stale(t, Called(t).ptr))
            => (fr'[t].pc = "idle" /\ result'[t].ret = NULL /\ HeapSame)
       /\ (fr[t].pc = "f_crit" /\ fr[t].op = "free" /\ Stale(t, fr[t].ptr))
            => (Returns(t) /\ HeapSame)]_vars

\* C12: when allocator_destroy returns, no region obtained from mmap is
\* still mapped and the list is empty.
C12_DestroyUnmapsAll ==
  [][\A t \in Threads :
       (Returns(t) /\ fr[t].op = "destroy") => (regions' = {} /\ free_list' = NULL)]_vars

\* C13: allocator_malloc(0) returns NULL in the step that calls it, in every
\* heap state: the lock, the list head, every word of memory and the
\* mappings stay as they are.
C13_AllocateZero ==
  [][\A t \in Threads :
       (Begins(t) /\ Called(t).op = "malloc" /\ Called(t).size = 0)
         => (fr'[t].pc = "idle" /\ result'[t].ret = NULL /\ HeapSame /\ lock' = lock)]_vars

\* allocator_malloc(0) has returned in a heap with blocks
C13_Witness ==
  \E t \in Threads :
    result[t].op = "malloc" /\ result[t].size = 0 /\ free_list # NULL

\* C14: allocator_free(NULL) returns in the step that calls it, in every heap
\* state, and leaves the list head, every word of memory, the mappings and
\* the lock as they are.
C14_ReleaseNull ==
  [][\A t \in Threads :
       (Begins(t) /\ Called(t).op = "free" /\ Called(t).ptr = NULL)
         => (fr'[t].pc = "idle" /\ HeapSame /\ lock' = lock)]_vars

\* allocator_free(NULL) has returned in a heap with blocks
C14_Witness ==
  \E t \in Threads :
    result[t].op = "free" /\ result[t].ptr = NULL /\ free_list # NULL

\* this step ends a call of thread t
Completes(t) == fr'[t].pc = "idle" /\ (Begins(t) \/ fr[t].pc # "idle")

\* the heap after this step
HeapNext == [mem |-> mem', free_list |-> free_list', regions |-> regions']

\* the block that holds block's bytes once block is released in heap h: its
\* predecessor if that one is free and absorbs it, else block itself
Survivor(h, block) ==
  LET pv == Rd(h.mem, Add(block, OFF_PREV))
  IN  IF pv # NULL /\ Rd(h.mem, Add(pv, OFF_FREE)) # 0 THEN pv ELSE block

\* block is free in heap h and neither its successor nor its predecessor is
FreeAndMerged(h, block) ==
  LET nx == Rd(h.mem, Add(block, OFF_NEXT))
      pv == Rd(h.mem, Add(block, OFF_PREV))
  IN  /\ Rd(h.mem, Add(block, OFF_FREE)) # 0
      /\ nx # NULL => Rd(h.mem, Add(nx, OFF_FREE)) = 0
      /\ pv # NULL => Rd(h.mem, Add(pv, OFF_FREE)) = 0

\* C15: for an allocation p of the caller, allocator_realloc(p, 0) returns
\* NULL and leaves the heap as allocator_free(p) run in the same heap leaves
\* it: the block is free and merged with its free successor and predecessor.
C15_ResizeToZeroReleases ==
  [][\A t \in Threads :
       (/\ Completes(t) /\ result'[t].op = "realloc" /\ result'[t].size = 0
        /\ \E r \in live[t] : r.p = result'[t].ptr)
         => (/\ result'[t].ret = NULL
             /\ \E d \in AloneFree(Heap, result'[t].ptr) : d.ok /\ d.h = HeapNext
             /\ FreeAndMerged(HeapNext, Survivor(Heap, get_block(result'[t].ptr))))]_vars

\* C16: for every size n, 0 included, and in every heap state,
\* allocator_realloc(NULL, n) returns what allocator_malloc(n) run in the
\* same heap returns and leaves the heap that call leaves.
C16_ResizeNullAllocates ==
  [][\A t \in Threads :
       (Completes(t) /\ result'[t].op = "realloc" /\ result'[t].ptr = NULL)
         => \E d \in AloneMalloc(Heap, result'[t].size) :
              d.ok /\ d.ret = result'[t].ret /\ d.h = HeapNext]_vars

\* allocator_realloc(NULL, n) with n > 0 has returned a block in a heap that
\* also has a free block
C16_Witness ==
  \E t \in Threads :
    /\ result[t].op = "realloc" /\ result[t].ptr = NULL
    /\ result[t].size # 0 /\ result[t].ret # NULL
    /\ \E b \in ListBlocks : IsFree(b)

\* C17: when allocator_calloc(nmemb, size) returns a pointer, the block
\* behind it has room for nmemb * size bytes, the product taken as a number
\* and not cut to the word width, and every word of those bytes is zero,
\* also in a block that held other data before.
C17_ZeroedCapacity ==
  [][\A t \in Threads :
       (Completes(t) /\ result'[t].op = "calloc" /\ result'[t].ret # NULL)
         => LET n == result'[t].nmemb * result'[t].elsz
                block == get_block(result'[t].ret)
            IN  /\ Rd(mem', Add(block, OFF_SIZE)) >= n
                /\ \A a \in Words(result'[t].ret, Min(n, Rd(mem', Add(block, OFF_SIZE)))) :
                     Rd(mem', a) = 0]_vars

(* ---------------------------------------------------------------------- *)
(* The lock                                                                *)
(* ---------------------------------------------------------------------- *)
\* this step of thread t reads or writes free_list or a field of a block
\* header: the parts between lock and unlock, the valid_block call of
\* allocator_realloc and the block->size argument of its memcpy
TouchesHeader(t) ==
  \/ fr[t].pc \in {"m_crit", "f_crit", "r_crit", "d_crit", "r_copy"} /\ fr'[t] # fr[t]
  \/ Begins(t) /\ Called(t).op = "realloc" /\ Called(t).ptr # NULL /\ Called(t).size # 0

\* C18: a thread reads or writes the list head or a header field (size,
\* free, next, prev) only while it holds the lock.
C18_HeadersUnderLock ==
  [][\A t \in Threads : TouchesHeader(t) => lock = t]_vars

\* C19: when a call returns, on whatever path (success, zero size, NULL
\* pointer, invalid handle, mmap failure), the calling thread does not hold
\* the lock.
C19_ReturnsUnlocked ==
  [][\A t \in Threads : Completes(t) => lock' # t]_vars

\* allocator_free has taken the lock, found the handle invalid and returned
C19_Witness ==
  \E t \in Threads :
    /\ fr[t].pc = "idle" /\ result[t].op = "free" /\ result[t].ptr # NULL
    /\ result[t].path = "invalid"

\* C20: a thread that waits for the lock does not hold it (allocator_realloc
\* and allocator_calloc call allocator_malloc and allocator_free with the
\* lock released), and with the fairness above every call that a thread has
\* begun returns, in a process that no memory fault inside the call kills:
\* no wait for the lock and no walk of the list goes on forever.
C20_NoCallBlocksForever ==
  /\ [](\A t \in Threads :
         fr[t].pc \in {"m_lock", "f_lock", "r_lock", "d_lock"} => lock # t)
  /\ \A t \in Threads :
       (fr[t].pc # "idle") ~> (fr[t].pc = "idle" \/ fate = "segv")

\* a thread on the grow path of allocator_realloc waits in allocator_malloc
\* for the lock that another thread holds
C20_Witness ==
  \E t \in Threads :
    /\ fr[t].op = "realloc" /\ fr[t].path = "grow" /\ fr[t].pc = "m_lock"
    /\ lock # 0 /\ lock # t

(* ---------------------------------------------------------------------- *)
(* Coalescing, reuse and the shape of the list                             *)
(* ---------------------------------------------------------------------- *)
\* allocator_free(p) and then allocator_free(q), run alone in heap h
FreeTwo(h, p, q) ==
  LET o1 == free_locked(h, p)
      o2 == free_locked(HeapOf(o1), q)
  IN  [h |-> HeapOf(o2), ok |-> o1.st = "ok" /\ o2.st = "ok"]

\* C21: for two in-use blocks a and b with a.next = b and b.prev = a,
\* free(a); free(b) and free(b); free(a) leave the same list (addresses,
\* sizes, free flags); in it one free block spans a and b, and neither its
\* successor nor its predecessor is free.
C21_ReleaseOrderIrrelevant ==
  Quiescent =>
    \A ra \in AllLive : \A rb \in AllLive :
      LET a == get_block(ra.p)
          b == get_block(rb.p)
      IN  (/\ a \in ListBlocks /\ a # b /\ ~IsFree(a) /\ ~IsFree(b)
           /\ NextOf(a) = b /\ PrevOf(b) = a)
          => LET x == FreeTwo(Heap, ra.p, rb.p)
                 y == FreeTwo(Heap, rb.p, ra.p)
                 s == Survivor(Heap, a)
             IN  /\ x.ok /\ y.ok
                 /\ AbsList(x.h) = AbsList(y.h)
                 /\ s + BLOCK_SIZE + Rd(x.h.mem, Add(s, OFF_SIZE))
                      >= b + BLOCK_SIZE + SizeOf(b)
                 /\ FreeAndMerged(x.h, s)

\* C22: when every allocation has been released, the last of them by an
\* allocator_free of an allocation of n bytes, allocator_malloc(m) with
\* m <= n (so that the block just released is large enough) returns a
\* block of the list and maps no new region.
C22_ReleasedMemoryIsReused ==
  [][\A t \in Threads :
       (/\ fr[t].pc = "m_crit" /\ fr[t].op = "malloc" /\ AllLive = {}
        /\ result[t].op = "free" /\ result[t].path # "invalid"
        /\ result[t].ptr # NULL /\ fr[t].size <= result[t].oldn)
         => (Completes(t) /\ result'[t].ret # NULL /\ regions' = regions)]_vars

\* C23: allocator_init returns 0 in the step that calls it, in every state,
\* and leaves the list head, every word of memory, the mappings and the lock
\* as they are, also while allocations are live.
C23_InitChangesNothing ==
  [][\A t \in Threads :
       (Begins(t) /\ Called(t).op = "init")
         => (fr'[t].pc = "idle" /\ result'[t].ret = 0 /\ HeapSame /\ lock' = lock
             /\ live' = live)]_vars

\* allocator_init has returned while an allocation is live
C23_Witness ==
  \E t \in Threads :
    result[t].op = "init" /\ fr[t].pc = "idle" /\ live[t] # {} /\ free_list # NULL

\* C24: the size align_size computes for a request of n bytes is the smallest
\* multiple of 16 that is at least n, for every n of size_t; aligning it
\* again gives the same size, a request not larger than n gets a size not
\* larger, and align_size(0) = 0.
C24_AlignSizeRoundsUp ==
  /\ align_size(0) = 0
  /\ \A t \in Threads :
       (fr[t].op = "malloc" /\ fr[t].pc = "m_lock")
         => LET n == fr[t].size  a == fr[t].asz
            IN  /\ a % ALIGNMENT = 0 /\ a >= n /\ a - n < ALIGNMENT
                /\ align_size(a) = a
                /\ \A m \in sizes : m <= n => align_size(m) <= a

\* C25: invariant I2. In every state every listed block with a non-null
\* next is followed in memory by that next block: the address of the next
\* block is the block's address plus the header size plus the block's size,
\* also for the blocks extend_heap appends.
C25_NextIsAdjacent ==
  fate = "run" =>
    \A b \in ListBlocks :
      NextOf(b) # NULL => NextOf(b) = Add(b, BLOCK_SIZE + SizeOf(b))

\* the words at offset off of the blocks in bs are the same after the step
SameField(bs, off) == \A b \in bs : Rd(mem', Add(b, off)) = Rd(mem, Add(b, off))

\* C26: a successful heap extension inside allocate appends the new block at
\* the end of the list: its prev is the block that was last before the call
\* and that block's next is the new block, no other link of a listed block
\* changes, and with an empty list the new block becomes the head.
C26_ExtensionAppendsAtEnd ==
  [][\A t \in Threads :
       (/\ fr[t].pc = "m_crit" /\ fr'[t].pc # "m_crit" /\ fate' = "run"
        /\ NeedsMmap(Heap, fr[t].asz) /\ regions' # regions)
         => LET new == (CHOOSE r \in regions' \ regions : TRUE).base
                n == Len(BlockList)
            IN  IF n = 0
                THEN free_list' = new
                ELSE LET last == BlockList[n]
                     IN  /\ free_list' = free_list
                         /\ Rd(mem', Add(new, OFF_PREV)) = last
                         /\ Rd(mem', Add(last, OFF_NEXT)) = new
                         /\ Rd(mem', Add(new, OFF_NEXT)) = NULL
                         /\ SameField(ListBlocks \ {last}, OFF_NEXT)
                         /\ SameField(ListBlocks, OFF_PREV)]_vars

\* the positions in the list of the free blocks of at least size bytes
Candidates(size) ==
  {i \in 1 .. Len(BlockList) : IsFree(BlockList[i]) /\ SizeOf(BlockList[i]) >= size}

\* C27: whenever allocate is about to search the list, find_block returns the
\* first block in list order that is free and has at least the requested
\* size, also when several blocks qualify, and returns null exactly when no
\* listed block qualifies.
C27_FindBlockIsFirstFit ==
  \A t \in Threads :
    (fate = "run" /\ fr[t].pc = "m_crit")
      => LET f == find_block(mem, regions, free_list, fr[t].asz)
             c == Candidates(fr[t].asz)
         IN  /\ f.st = "ok"
             /\ (f.block = NULL) <=> (c = {})
             /\ c # {} => f.block = BlockList[CHOOSE i \in c : \A j \in c : i <= j]

\* allocate is about to search a list in which two blocks qualify
C27_Witness ==
  \E t \in Threads :
    /\ fate = "run" /\ fr[t].pc = "m_crit"
    /\ Cardinality(Candidates(fr[t].asz)) >= 2
    /\ \E i \in 1 .. Len(BlockList) : i \notin Candidates(fr[t].asz)

\* C28: when allocate finds a block, it splits it exactly when the block's
\* size exceeds the aligned request by more than the header size plus 16. If
\* not, the whole block is handed over unchanged but in use. After a split the
\* found block is in use with exactly the aligned requested size; the new
\* block starts right behind its payload, is free, has the old size minus
\* the request minus the header size, and is linked between the found block
\* and the found block's former successor, whose prev names the new block.
C28_SplitRule ==
  [][\A t \in Threads :
       LET f == find_block(mem, regions, free_list, fr[t].asz)
           b == f.block
           asz == fr[t].asz
           new == Add(b, BLOCK_SIZE + asz)
       IN  (/\ fr[t].pc = "m_crit" /\ fr'[t].pc # "m_crit" /\ fate' = "run"
            /\ f.st = "ok" /\ b # NULL)
             => /\ Rd(mem', Add(b, OFF_FREE)) = 0
                /\ Rd(mem', Add(b, OFF_PREV)) = PrevOf(b)
                /\ regions' = regions /\ free_list' = free_list
                /\ IF SizeOf(b) - asz > BLOCK_SIZE + ALIGNMENT
                   THEN /\ Rd(mem', Add(b, OFF_SIZE)) = asz
                        /\ Rd(mem', Add(b, OFF_NEXT)) = new
                        /\ Rd(mem', Add(new, OFF_FREE)) # 0
                        /\ Rd(mem', Add(new, OFF_SIZE)) = SizeOf(b) - asz - BLOCK_SIZE
                        /\ Rd(mem', Add(new, OFF_PREV)) = b
                        /\ Rd(mem', Add(new, OFF_NEXT)) = NextOf(b)
                        /\ NextOf(b) # NULL =>
                             Rd(mem', Add(NextOf(b), OFF_PREV)) = new
                   ELSE /\ Rd(mem', Add(b, OFF_SIZE)) = SizeOf(b)
                        /\ Rd(mem', Add(b, OFF_NEXT)) = NextOf(b)]_vars

\* an allocate has split a block that had a successor in the list
C28_Witness ==
  \E t \in Threads :
    LET b == get_block(result[t].ret)
        new == NextOf(b)
    IN  /\ fate = "run" /\ fr[t].pc = "idle"
        /\ result[t].op = "malloc" /\ result[t].path = "split"
        /\ new = Add(b, BLOCK_SIZE + SizeOf(b)) /\ IsFree(new)
        /\ NextOf(new) # NULL /\ PrevOf(NextOf(new)) = new

\* C29: releasing an in-use listed block whose list successor and list
\* predecessor are both free leaves the predecessor as one free block of size
\* pred.size + block.size + succ.size + 2 * header_size whose next is the
\* successor's former next, and that block's prev names the predecessor.
C29_ReleaseMergesBothSides ==
  [][\A t \in Threads :
       LET b == get_block(fr[t].ptr)
           pv == PrevOf(b)
           nx == NextOf(b)
           n2 == NextOf(nx)
       IN  (/\ fr[t].pc = "f_crit" /\ fr'[t].pc # "f_crit" /\ fate' = "run"
            /\ b \in ListBlocks /\ ~IsFree(b)
            /\ pv # NULL /\ IsFree(pv) /\ nx # NULL /\ IsFree(nx))
             => /\ Rd(mem', Add(pv, OFF_FREE)) # 0
                /\ Rd(mem', Add(pv, OFF_SIZE))
                     = SizeOf(pv) + SizeOf(b) + SizeOf(nx) + 2 * BLOCK_SIZE
                /\ Rd(mem', Add(pv, OFF_NEXT)) = n2
                /\ n2 # NULL => Rd(mem', Add(n2, OFF_PREV)) = pv
                /\ Rd(mem', Add(pv, OFF_PREV)) = PrevOf(pv)
                /\ free_list' = free_list /\ regions' = regions]_vars

\* a release has merged the block with both neighbours and the survivor has
\* a successor in the list
C29_Witness ==
  \E t \in Threads :
    LET pv == PrevOf(get_block(result[t].ptr))
    IN  /\ fate = "run" /\ fr[t].pc = "idle"
        /\ result[t].op = "free" /\ result[t].path = "both"
        /\ pv \in ListBlocks /\ IsFree(pv)
        /\ NextOf(pv) # NULL /\ PrevOf(NextOf(pv)) = pv

\* C30: the block a successful heap extension creates is marked in use and
\* its size field is the aligned requested size.
C30_ExtensionBlockSize ==
  [][\A t \in Threads :
       (/\ fr[t].pc = "m_crit" /\ fr'[t].pc # "m_crit" /\ fate' = "run"
        /\ NeedsMmap(Heap, fr[t].asz) /\ regions' # regions)
         => LET new == (CHOOSE r \in regions' \ regions : TRUE).base
            IN  /\ Rd(mem', Add(new, OFF_FREE)) = 0
                /\ Rd(mem', Add(new, OFF_SIZE)) = fr[t].asz]_vars

\* C31: resize(p, m) with m > 0 on a live block whose size is at least
\* align_size(m) returns p, maps nothing, takes no other block into use and
\* leaves the first m payload bytes as they were; the block keeps its size
\* unless that exceeds align_size(m) + header_size + 16, and then it is cut
\* down to align_size(m).
C31_ResizeInPlace ==
  [][\A t \in Threads :
       LET b == get_block(fr[t].ptr)
           asz == fr[t].asz
       IN  (/\ fr[t].pc = "r_crit" /\ fr'[t].pc # "r_crit"
            /\ [p |-> fr[t].ptr, n |-> fr[t].oldn] \in live[t]
            /\ SizeOf(b) >= asz)
             => /\ fate' = "run" /\ fr'[t].pc = "idle"
                /\ result'[t].ret = fr[t].ptr
                /\ regions' = regions /\ free_list' = free_list
                /\ \A x \in Words(fr[t].ptr, fr[t].size) : Rd(mem', x) = Rd(mem, x)
                /\ \A c \in ListBlocks : Rd(mem', Add(c, OFF_FREE)) = Rd(mem, Add(c, OFF_FREE))
                /\ live'[t] = (live[t] \ {[p |-> fr[t].ptr, n |-> fr[t].oldn]})
                                \cup {[p |-> fr[t].ptr, n |-> fr[t].size]}
                /\ Rd(mem', Add(b, OFF_SIZE))
                     = IF SizeOf(b) > asz + BLOCK_SIZE + ALIGNMENT THEN asz ELSE SizeOf(b)]_vars

\* a resize has cut a block holding the client's pattern down in place
C31_Witness ==
  \E t \in Threads :
    LET b == get_block(result[t].ret)
    IN  /\ fate = "run" /\ fr[t].pc = "idle"
        /\ result[t].op = "realloc" /\ result[t].path = "shrink"
        /\ result[t].ret = result[t].ptr /\ result[t].hadPat
        /\ result[t].size > 0 /\ result[t].size < result[t].oldn
        /\ SizeOf(b) = align_size(result[t].size)
        /\ IsFree(NextOf(b)) /\ NextOf(b) = Add(b, BLOCK_SIZE + SizeOf(b))

\* the allocation of p is the argument of a call that is under way before
\* or after the step
Operand(p) ==
  \E u \in Threads :
    \/ fr[u].pc # "idle" /\ fr[u].ptr = p
    \/ fr'[u].pc # "idle" /\ fr'[u].ptr = p
    \/ Begins(u) /\ Called(u).ptr = p

\* block c of heap h is a listed free block whose extent reaches over the
\* header of block b behind it
Covers(h, c, b) ==
  /\ c \in {Walk(h.mem, h.regions, h.free_list, {})[i] :
              i \in 1 .. Len(Walk(h.mem, h.regions, h.free_list, {}))}
  /\ Rd(h.mem, Add(c, OFF_FREE)) # 0
  /\ c < b /\ b < c + BLOCK_SIZE + Rd(h.mem, Add(c, OFF_SIZE))

\* the header of the live block b stays in use and does not shrink
KeepsHeader(b) ==
  /\ Rd(mem', Add(b, OFF_FREE)) = 0
  /\ Rd(mem', Add(b, OFF_SIZE)) >= SizeOf(b)

\* C32: a block handed to a caller stays in use until the caller passes its
\* pointer to release or resize. No step of a call on another pointer marks
\* it free, reduces its size, or lets a free block of the list grow over it.
C32_LiveBlockStaysInUse ==
  [][fate' = "run" =>
       \A r \in AllLive :
         (r \in UNION {live'[t] : t \in Threads} /\ ~Operand(r.p))
           => /\ KeepsHeader(get_block(r.p))
              /\ \A c \in DOMAIN mem' :
                   Covers(HeapNext, c, get_block(r.p)) => Covers(Heap, c, get_block(r.p))]_vars

\* C33: heap growth is monotonic. Every step of allocate, release, resize,
\* zeroed-allocate and init leaves every mapped region mapped, also a release
\* that leaves a whole region free; only destroy unmaps.
C33_GrowthIsMonotonic ==
  [][(\A t \in Threads : fr[t].pc # "d_crit") => regions \subseteq regions']_vars

\* a release has returned and a whole mapped region is one free block
C33_Witness ==
  \E t \in Threads :
    /\ fate = "run" /\ fr[t].pc = "idle"
    /\ result[t].op = "free" /\ result[t].path # "invalid" /\ result[t].ptr # NULL
    /\ \E r \in regions :
         /\ r.base = get_block(result[t].ptr)
         /\ IsFree(r.base) /\ SizeOf(r.base) = r.len - BLOCK_SIZE

\* C34: invariant I1. In every state the size field of every block of the
\* list and of every block a client holds is a multiple of 16, whether the
\* block was made by a heap extension, by a split or by a merge.
C34_SizesAreAligned ==
  fate = "run" =>
    \A b \in ListBlocks \cup {get_block(r.p) : r \in AllLive} :
      SizeOf(b) % ALIGNMENT = 0

\* C35: for every n > 0 of size_t, a non-null result of allocate(n) is the
\* payload of a block whose size field is at least n, also for the n within
\* 15 of SIZE_MAX.
C35_ResultHoldsRequest ==
  \A t \in Threads :
    (/\ fate = "run" /\ fr[t].pc = "idle"
     /\ result[t].op = "malloc" /\ result[t].size > 0 /\ result[t].ret # NULL)
      => SizeOf(get_block(result[t].ret)) >= result[t].size

\* C36: destroy never touches unmapped memory. Its walk reads no header in
\* a range it has already unmapped, so the process survives the call, and
\* every range it passes to munmap is, rounded to pages as munmap does, a
\* whole region the allocator mapped.
C36_DestroyTouchesOnlyMapped ==
  [][\A t \in Threads :
       (fr[t].pc = "d_crit" /\ (fr'[t].pc # "d_crit" \/ fate' # fate))
         => /\ fate' = "run"
            /\ \A c \in destroy_calls(mem, regions, free_list, {}) :
                 [base |-> c[1],
                  len |-> c[2] + PAGE_SIZE - 1 - ((c[2] + PAGE_SIZE - 1) % PAGE_SIZE)]
                   \in regions]_vars

\* C37: the allocator is reusable after destroy. When destroy returns the
\* list is empty, and the allocate that follows it reuses nothing: it asks for
\* a mapping, and if it gets one the mapping lies outside everything mapped,
\* its block becomes the head with null prev and null next, and the payload
\* of that block is the result.
C37_ReusableAfterDestroy ==
  [][\A t \in Threads :
       /\ (Returns(t) /\ fr[t].op = "destroy") => free_list' = NULL
       /\ (/\ fr[t].pc = "m_crit" /\ result[t].op = "destroy"
           /\ (fr'[t].pc # "m_crit" \/ fate' # fate))
            => /\ fate' = "run" /\ free_list = NULL /\ NeedsMmap(Heap, fr[t].asz)
               /\ IF regions' = regions
                  THEN fr'[t].pc = "idle" /\ result'[t].ret = NULL /\ free_list' = NULL
                  ELSE \E r \in regions' \ regions :
                         /\ regions' = regions \cup {r}
                         /\ \A q \in regions :
                              ~Overlap(r.base, r.len, q.base, q.len)
                         /\ free_list' = r.base
                         /\ Rd(mem', Add(r.base, OFF_PREV)) = NULL
                         /\ Rd(mem', Add(r.base, OFF_NEXT)) = NULL
                         /\ Rd(mem', Add(r.base, OFF_FREE)) = 0
                         /\ Called(t).op = "malloc"
                              => result'[t].ret = Add(r.base, BLOCK_SIZE)]_vars

\* the allocate inside the zeroed-allocate that follows a destroy has made
\* its block the head while a mapping from before the destroy is still there
C37_Witness ==
  \E t \in Threads :
    /\ fate = "run" /\ fr[t].pc = "c_zero" /\ result[t].op = "destroy"
    /\ free_list = get_block(fr[t].new_ptr)
    /\ NextOf(free_list) = NULL /\ PrevOf(free_list) = NULL
    /\ Cardinality(regions) >= 2

\* C38: the list is a well-formed doubly linked list. In every state in
\* which no thread holds the lock the head's prev is null, and every block
\* reachable from the head that has a next is the prev of that next.
C38_LinksAreConsistent ==
  (fate = "run" /\ lock = 0) =>
    /\ free_list # NULL => PrevOf(free_list) = NULL
    /\ \A b \in ListBlocks : NextOf(b) # NULL => PrevOf(NextOf(b)) = b

\* C39: the list is never cyclic and holds no block twice. In every state
\* following next from the head reaches null after visiting each block at
\* most once, and no first-fit scan and no walk of destroy runs in a circle.
C39_ListEndsAtNull ==
  /\ fate # "hang"
  /\ fate = "run" =>
       IF BlockList = <<>> THEN free_list = NULL
       ELSE NextOf(BlockList[Len(BlockList)]) = NULL
====
